---- MODULE Spec2Model ----
(***************************************************************************)
(* Model of the distributed rate limiter (app/rate_limiter.py, app/main.py *)
(* and app/config.py): the sliding-window decision script that the shared  *)
(* store runs, the store keys it works on, and the nodes that call it.     *)
(*                                                                         *)
(* The store holds, for one API key, the nine keys rl:<key>:<dim>:<part>   *)
(* with dim in {rpm, input, output} and part in {z, h, total}.  Keys of    *)
(* other API keys have other names and are never passed to the script.     *)
(* A sorted set or a hash that becomes empty is deleted by the store, so   *)
(* "the key exists" is "the set / the mapping is not empty"; a string key  *)
(* is absent (<<>>) or holds one integer (<<v>>).                          *)
(***************************************************************************)
EXTENDS Integers, Sequences, FiniteSets, TLC

\* ------------------------------------------------------------------ bounds
TickMs    == 1000   \* one step of the store's clock, in milliseconds
MaxTicks  == 3      \* the store clock runs from 0 to MaxTicks * TickMs
MaxTokens == 2      \* input_tokens and output_tokens go up to MaxTokens
MaxUsage  == 2      \* cap on the RunningTotal of a dimension without limit
SkewMs    == 500    \* how far a node's clock may lag behind the store's
LeadMs    == 2000   \* how far a node's clock may be ahead of the store's
MaxCalls  == 3      \* calls the nodes make, all together, on the shared store
MaxNodeTicks == 1   \* steps of the store's clock while several nodes call
MaxFaults == 2      \* script cache losses and failed round trips, together
MaxRecords == 3     \* _record_metric calls made, all together
MaxWakes == 2       \* wake-ups of the metrics reporter
MaxRequests == 2    \* chat-completions requests a node takes
MaxReloads == 2     \* reloads of the key registry after its construction
MaxDelayTicks == 3  \* steps of the store's clock a call may spend in its await
MaxLongTicks == 8   \* steps of the store's clock where a time-to-live may run out

\* ------------------------------------------------------- program constants
WindowSeconds == 2      \* Settings.window_seconds (60 by default)
TtlSlack == 5           \* self._ttl_seconds = window_seconds + 5
MsPerBucket == 1000     \* bucket = math.floor(now_ms / 1000)
DefaultMaxTokens == 128      \* payload.get("max_tokens", 128)
MaxCompletionTokens == 512   \* min(max_tokens, 512)

Dims  == {"rpm", "input", "output"}
Parts == {"z", "h", "total"}
NoTTL == -1             \* a key without time-to-live

VARIABLES
  clock,     \* the store's clock, in milliseconds
  store,     \* the nine keys of the API key: [z, h, total, exp]
  limits,    \* the registry's APIKeyLimits of the API key
  last,      \* the check_and_consume call that has just returned, if any: its
             \* arguments, its outcome and how many rpm buckets it evicted
  cached,    \* the store's script cache holds the script
  nodes,     \* per node: its RateLimiter (sha) and the call it is in: where it
             \* is (pc), its arguments, the error _eval_script caught, its
             \* evalsha attempts, how often the store ran the script for it,
             \* and what the call before returned or raised
  serial,    \* the store that results from running every call the store
             \* accepted once, alone, in the order of acceptance
  expect,    \* per node: the reply that serial run gives to its call
  tally,     \* how many calls returned admitted / throttled by rpm /
             \* throttled by tokens / raised
  faults,    \* how often the store lost its script cache or a round trip failed
  quiet,     \* the time without any call for the key: for how long by now,
             \* and for how long when the last call read its clock
  metrics,       \* _metrics: the counters success, throttled, failed
  metrics_lock,  \* _metrics_lock: "free", or who holds it
  recorders,     \* per request handler: where it is in _record_metric, the
                 \* counter it increments and the value it has read
  reporter,      \* _metrics_reporter: where it is, and its locals success,
                 \* throttled, failed
  http,          \* the chat-completions request answered last: its header and
                 \* body, the status answered, whether check_and_consume was
                 \* called; the requests answered so far; and per handler where
                 \* it is in chat_completions, with its header, its body, the
                 \* now_ms it read and the store's reply
  registry,      \* APIKeyStore: _keys, and the reload under way: the document
                 \* read, the entries still to parse, the local parsed; the
                 \* _keys it started from and how the last reload ended
  life,          \* the service process: _metrics_task (none, running, cancelled,
                 \* crashed), the store client (open, closed), where startup /
                 \* shutdown are, how shutdown ended, and the order of events
  ledger,        \* what was admitted so far, per dimension and bucket; the now_ms
                 \* of the last call, whether a caller's clock lagged, whether a
                 \* call was evaluated before its now_ms or too long after it, the store
                 \* time of the last admission; and the store as it would be had
                 \* no time-to-live ever run out, with its reply to the last call
  seen,          \* what the last lookup (get / all_keys) has read of _keys
  audit          \* per counter the _record_metric calls completed, the sum of
                 \* the values the reporter took and the sum of those it logged;
                 \* the wake-ups, those whose snapshot was positive, the log lines

metricVars == <<metrics, metrics_lock, recorders, reporter, audit>>

registryVars == <<registry, seen>>

appVars == <<quiet, metricVars, http, registryVars, life, ledger>>

vars == <<clock, store, limits, last, cached, nodes, serial, expect, tally, faults, appVars>>

nodeVars == <<cached, nodes, serial, expect, tally, faults>>

\* ------------------------------------------------------------- the store
EmptyHash == [b \in {} |-> 0]

EmptyStore ==
  [ z     |-> [d \in Dims |-> {}],
    h     |-> [d \in Dims |-> EmptyHash],
    total |-> [d \in Dims |-> << >>],
    exp   |-> [d \in Dims |-> [p \in Parts |-> NoTTL]] ]

KeyExists(st, d, p) ==
  CASE p = "z"     -> st.z[d] # {}
    [] p = "h"     -> DOMAIN st.h[d] # {}
    [] p = "total" -> st.total[d] # << >>

RECURSIVE SumOver(_, _)
SumOver(f, S) ==
  IF S = {} THEN 0
  ELSE LET b == CHOOSE x \in S : TRUE IN f[b] + SumOver(f, S \ {b})

\* redis GET key: the value, or nil
GET(st, d) == st.total[d]

\* redis SET key value: the key holds value and loses any time-to-live
SET(st, d, v) == [st EXCEPT !.total[d] = <<v>>, !.exp[d]["total"] = NoTTL]

\* redis INCRBY key n: an absent key counts as 0; the time-to-live is kept
INCRBY(st, d, n) ==
  [st EXCEPT !.total[d] = IF @ = << >> THEN <<n>> ELSE <<@[1] + n>>]

\* redis HGET key field: the amount, or nil
HGET(st, d, b) == IF b \in DOMAIN st.h[d] THEN <<st.h[d][b]>> ELSE << >>

\* redis HDEL key field: the hash is deleted with its last field
HDEL(st, d, b) ==
  LET rest == DOMAIN st.h[d] \ {b} IN
  [st EXCEPT !.h[d] = [x \in rest |-> st.h[d][x]],
             !.exp[d]["h"] = IF rest = {} THEN NoTTL ELSE @]

\* redis HINCRBY key field n: an absent field counts as 0
HINCRBY(st, d, b, n) ==
  [st EXCEPT !.h[d] = [x \in DOMAIN st.h[d] \cup {b} |->
                         IF x = b
                         THEN (IF b \in DOMAIN st.h[d] THEN st.h[d][b] ELSE 0) + n
                         ELSE st.h[d][x]]]

\* redis ZADD key score member, with member = score = the bucket id
ZADD(st, d, b) == [st EXCEPT !.z[d] = @ \cup {b}]

\* redis ZRANGEBYSCORE key lo hi
ZRANGEBYSCORE(st, d, lo, hi) == {b \in st.z[d] : lo <= b /\ b <= hi}

\* redis ZREMRANGEBYSCORE key lo hi: the set is deleted with its last member
ZREMRANGEBYSCORE(st, d, lo, hi) ==
  LET rest == st.z[d] \ ZRANGEBYSCORE(st, d, lo, hi) IN
  [st EXCEPT !.z[d] = rest,
             !.exp[d]["z"] = IF rest = {} THEN NoTTL ELSE @]

EXPIRE_OnlyOnce(st, d, p, seconds, now) ==
  IF KeyExists(st, d, p) /\ st.exp[d][p] = NoTTL
  THEN [st EXCEPT !.exp[d][p] = now + seconds * 1000]
  ELSE st

\* redis EXPIRE key seconds at store time now: no effect on an absent key
EXPIRE(st, d, p, seconds, now) ==
  IF KeyExists(st, d, p)
  THEN [st EXCEPT !.exp[d][p] = now + seconds * 1000]
  ELSE st

\* The store reclaims every key whose time-to-live has run out at time now.
Expired(st, d, p, now) == st.exp[d][p] # NoTTL /\ now > st.exp[d][p]

Reclaim(st, now) ==
  [ z     |-> [d \in Dims |-> IF Expired(st, d, "z", now) THEN {} ELSE st.z[d]],
    h     |-> [d \in Dims |-> IF Expired(st, d, "h", now) THEN EmptyHash ELSE st.h[d]],
    total |-> [d \in Dims |-> IF Expired(st, d, "total", now) THEN << >> ELSE st.total[d]],
    exp   |-> [d \in Dims |-> [p \in Parts |->
                 IF Expired(st, d, p, now) THEN NoTTL ELSE st.exp[d][p]]] ]

\* ------------------------------------------------------- the Lua script
bucketOf(now_ms) == now_ms \div MsPerBucket

oldestBucket_NoPlusOne(now_ms, window_seconds) == bucketOf(now_ms) - window_seconds

oldestBucket_ShortWindow(now_ms, window_seconds) == bucketOf(now_ms) - window_seconds + 2

oldestBucket(now_ms, window_seconds) == bucketOf(now_ms) - window_seconds + 1

ensure_total(st, d) ==
  IF GET(st, d) = << >> THEN SET(st, d, 0) ELSE st

RECURSIVE prune_loop_NoDecrement(_, _, _)
prune_loop_NoDecrement(st, d, expired) ==
  IF expired = {} THEN st
  ELSE LET bucket_id == CHOOSE b \in expired : \A c \in expired : b <= c
           amount    == HGET(st, d, bucket_id)
           st1       == IF amount # << >> THEN HDEL(st, d, bucket_id) ELSE st
       IN  prune_loop_NoDecrement(st1, d, expired \ {bucket_id})

prune_loop_KeepsAmounts(st, d, expired) == st

RECURSIVE prune_loop(_, _, _)
prune_loop(st, d, expired) ==
  IF expired = {} THEN st
  ELSE LET bucket_id == CHOOSE b \in expired : \A c \in expired : b <= c
           amount    == HGET(st, d, bucket_id)
           st1       == IF amount # << >>
                        THEN INCRBY(HDEL(st, d, bucket_id), d, -amount[1])
                        ELSE st
       IN  prune_loop(st1, d, expired \ {bucket_id})

prune_KeepsExpired(st, d, oldest_bucket) == ensure_total(st, d)

prune(st, d, oldest_bucket) ==
  LET expired == ZRANGEBYSCORE(st, d, 0, oldest_bucket - 1)
      st1     == IF expired # {}
                 THEN ZREMRANGEBYSCORE(prune_loop(st, d, expired), d, 0, oldest_bucket - 1)
                 ELSE st
  IN  ensure_total(st1, d)

limit_hit_ZeroIsALimit(current_rpm, current_input, current_output, rpm_limit, input_limit, output_limit, input_tokens, output_tokens) ==
  IF current_rpm + 1 > rpm_limit THEN 1
  ELSE IF current_input + input_tokens > input_limit THEN 2
  ELSE IF current_output + output_tokens > output_limit THEN 3
  ELSE 0

limit_hit_OneTooFew(current_rpm, current_input, current_output, rpm_limit, input_limit, output_limit, input_tokens, output_tokens) ==
  IF rpm_limit > 0 /\ current_rpm + 1 >= rpm_limit THEN 1
  ELSE IF input_limit > 0 /\ current_input + input_tokens > input_limit THEN 2
  ELSE IF output_limit > 0 /\ current_output + output_tokens > output_limit THEN 3
  ELSE 0

limit_hit_OutputFirst(current_rpm, current_input, current_output, rpm_limit, input_limit, output_limit, input_tokens, output_tokens) ==
  IF output_limit > 0 /\ current_output + output_tokens > output_limit THEN 3
  ELSE IF input_limit > 0 /\ current_input + input_tokens > input_limit THEN 2
  ELSE IF rpm_limit > 0 /\ current_rpm + 1 > rpm_limit THEN 1
  ELSE 0

limit_hit(current_rpm, current_input, current_output, rpm_limit, input_limit, output_limit, input_tokens, output_tokens) ==
  IF rpm_limit > 0 /\ current_rpm + 1 > rpm_limit THEN 1
  ELSE IF input_limit > 0 /\ current_input + input_tokens > input_limit THEN 2
  ELSE IF output_limit > 0 /\ current_output + output_tokens > output_limit THEN 3
  ELSE 0

consume_Overwrites(st, d, bucket, delta) ==
  INCRBY(HINCRBY(HDEL(ZADD(st, d, bucket), d, bucket), d, bucket, delta), d, delta)

consume(st, d, bucket, delta) ==
  INCRBY(HINCRBY(ZADD(st, d, bucket), d, bucket, delta), d, delta)

expire_dim_NoTotal(st, d, ttl, now) ==
  EXPIRE(EXPIRE(st, d, "z", ttl, now), d, "h", ttl, now)

expire_dim(st, d, ttl, now) ==
  EXPIRE(EXPIRE(EXPIRE(st, d, "z", ttl, now), d, "h", ttl, now), d, "total", ttl, now)

admit_OutputForgotten(st, bucket, input_tokens, output_tokens, ttl, now) ==
  LET a1 == consume(st, "rpm", bucket, 1)
      a2 == consume(a1, "input", bucket, input_tokens)
  IN  expire_dim(expire_dim(expire_dim(a2, "rpm", ttl, now), "input", ttl, now),
                 "output", ttl, now)

\* The body of "if limit_hit == 0 then": the nine writes and the nine EXPIREs.
admit(st, bucket, input_tokens, output_tokens, ttl, now) ==
  LET a1 == consume(st, "rpm", bucket, 1)
      a2 == consume(a1, "input", bucket, input_tokens)
      a3 == consume(a2, "output", bucket, output_tokens)
  IN  expire_dim(expire_dim(expire_dim(a3, "rpm", ttl, now), "input", ttl, now),
                 "output", ttl, now)

settle_ExpireAlways(st, hit, bucket, input_tokens, output_tokens, ttl, now) ==
  IF hit = 0 THEN admit(st, bucket, input_tokens, output_tokens, ttl, now)
  ELSE expire_dim(expire_dim(expire_dim(st, "rpm", ttl, now), "input", ttl, now),
                  "output", ttl, now)

\* "if limit_hit == 0 then ... end": a rejected request writes nothing more.
settle(st, hit, bucket, input_tokens, output_tokens, ttl, now) ==
  IF hit = 0 THEN admit(st, bucket, input_tokens, output_tokens, ttl, now) ELSE st

script_reply_BeforeIncrement(hit, current_rpm, current_input, current_output, input_tokens, output_tokens) ==
  <<IF hit = 0 THEN 1 ELSE 0, current_rpm, current_input, current_output, hit>>

\* The returned table: the current_* locals are raised by the deltas when the
\* request is admitted.
script_reply(hit, current_rpm, current_input, current_output, input_tokens, output_tokens) ==
  IF hit = 0
  THEN <<1, current_rpm + 1, current_input + input_tokens,
         current_output + output_tokens, hit>>
  ELSE <<0, current_rpm, current_input, current_output, hit>>

\* One evaluation of the script at store time now: the store after it and
\* the reply {allowed, rpm, input, output, limit_hit}.
LuaScript(st, now, window_seconds, now_ms, rpm_limit, input_limit, output_limit, input_tokens, output_tokens, ttl) ==
  LET bucket         == bucketOf(now_ms)
      oldest_bucket  == oldestBucket(now_ms, window_seconds)
      s1             == prune(st, "rpm", oldest_bucket)
      s2             == prune(s1, "input", oldest_bucket)
      s3             == prune(s2, "output", oldest_bucket)
      current_rpm    == GET(s1, "rpm")[1]
      current_input  == GET(s2, "input")[1]
      current_output == GET(s3, "output")[1]
      hit            == limit_hit(current_rpm, current_input, current_output,
                                  rpm_limit, input_limit, output_limit,
                                  input_tokens, output_tokens)
  IN  [ store |-> settle(s3, hit, bucket, input_tokens, output_tokens, ttl, now),
        reply |-> script_reply(hit, current_rpm, current_input, current_output,
                               input_tokens, output_tokens) ]

\* ------------------------------------------------------- the rate limiter
Max_NoClamp(a, b) == b

\* max(0, input_tokens), max(0, output_tokens)
Max(a, b) == IF a >= b THEN a ELSE b

ttl_seconds(window_seconds) == window_seconds + TtlSlack

\* RateLimiter.check_and_consume around one successful evaluation: the
\* arguments it passes, and the RateLimitOutcome it builds from the reply.
ScriptCall(st, now, now_ms, lim, input_tokens, output_tokens) ==
  LuaScript(st, now, WindowSeconds, now_ms, lim.rpm, lim.input_tpm, lim.output_tpm,
            Max(0, input_tokens), Max(0, output_tokens), ttl_seconds(WindowSeconds))

RateLimitOutcome(reply) ==
  [ allowed             |-> reply[1] # 0,
    rpm_usage           |-> reply[2],
    input_tokens_usage  |-> reply[3],
    output_tokens_usage |-> reply[4],
    limit_flag          |-> reply[5] ]

\* ------------------------------------------------------------ the registry
APIKeyLimits(rpm, input_tpm, output_tpm) ==
  [rpm |-> rpm, input_tpm |-> input_tpm, output_tpm |-> output_tpm]

\* The entries the registry may hold for the key: every limit positive, or
\* one dimension disabled by a limit of 0.
LimitChoices ==
  { APIKeyLimits(2, 1, 1), APIKeyLimits(0, 1, 1),
    APIKeyLimits(2, 0, 1), APIKeyLimits(2, 1, 0) }

\* The (input_tokens, output_tokens) a caller may pass: every pair up to
\* MaxTokens, and a pair of negative counts.
Requests == {<<i, o>> : i \in 0 .. MaxTokens, o \in 0 .. MaxTokens} \cup {<<-1, -1>>}

NoOutcome ==
  [allowed |-> FALSE, rpm_usage |-> 0, input_tokens_usage |-> 0,
   output_tokens_usage |-> 0, limit_flag |-> 0]

NoCall ==
  [kind |-> "none", now_ms |-> 0, input_tokens |-> 0, output_tokens |-> 0,
   evicted |-> 0, outcome |-> NoOutcome]

\* ------------------------------------------------------------- the nodes
Nodes == {1, 2}

\* Node 1 reads the store's time, node 2's clock lags behind it.
NodeSkew(n) == IF n = 1 THEN 0 ELSE SkewMs

\* The (input_tokens, output_tokens) of the requests the nodes send.
RequestShapes == {<<0, 0>>, <<1, 1>>}

\* A token limit that MaxCalls requests of these shapes cannot reach.
Roomy == MaxCalls + 1

NodeLimitChoices == { APIKeyLimits(2, 1, 1), APIKeyLimits(2, Roomy, Roomy) }

NoReturn == [kind |-> "none", outcome |-> NoOutcome, error |-> "none"]

NoReply == <<0, 0, 0, 0, 0>>

NoRequest == [now_ms |-> 0, input_tokens |-> 0, output_tokens |-> 0]

InitNodes ==
  /\ cached = FALSE
  /\ nodes = [n \in Nodes |->
               [pc |-> "idle", sha |-> FALSE, caught |-> "none", req |-> NoRequest,
                ret |-> NoReturn, attempts |-> 0, applied |-> 0, calls |-> 0]]
  /\ serial = EmptyStore
  /\ expect = [n \in Nodes |-> NoReply]
  /\ tally = [admitted |-> 0, rpm |-> 0, tokens |-> 0, raised |-> 0]
  /\ faults = 0

Caught_AnyError(error, pc, retry) == pc = "evalsha" /\ ~retry

Caught_EveryTime(error, pc, retry) == error = "NoScriptError" /\ pc = "evalsha"

Caught_Never(error, pc, retry) == FALSE

\* _eval_script's "except NoScriptError" guards the first evalsha alone: the
\* evalsha in the handler and both initialize calls are outside the try.
Caught(error, pc, retry) == error = "NoScriptError" /\ pc = "evalsha" /\ ~retry

\* ---------------------------------------------------------- the metrics
Kinds == {"success", "throttled", "failed"}

Handlers == {"h1", "h2"}

Zeros == [k \in Kinds |-> 0]

InitMetrics ==
  /\ metrics = Zeros
  /\ metrics_lock = "free"
  /\ recorders = [h \in Handlers |-> [pc |-> "idle", kind |-> "success", read |-> 0]]
  /\ reporter = [pc |-> "sleep", snap |-> Zeros]
  /\ audit = [made |-> Zeros, taken |-> Zeros, wakes |-> 0, positive |-> 0,
              lines |-> 0, logged |-> Zeros]

\* ----------------------------------------------------------- the registry
\* A value of a configuration field: an integer, a string that spells one,
\* a string that spells none; a field may be absent.
IntValue(n) == <<"int", n>>

\* int(value): the integer, or nothing when int() raises
IntOf(value) == IF value[1] \in {"int", "numeral"} THEN <<value[2]>> ELSE << >>

\* A configuration document: "missing" when the file does not exist, or the
\* entries of its keys section, each a key and the values of
\* request_per_minute, input_tokens_per_minute, output_tokens_per_minute.
Entry(key, rpm, input, output) == [key |-> key, cfg |-> <<rpm, input, output>>]

DocOld == << Entry("a", IntValue(1), IntValue(1), IntValue(1)),
            Entry("b", IntValue(1), IntValue(1), IntValue(1)) >>

DocNew == << Entry("a", IntValue(2), <<"numeral", 2>>, IntValue(2)),
            Entry("c", IntValue(2), IntValue(2), IntValue(2)) >>

DocNoInteger == << Entry("a", IntValue(2), IntValue(2), IntValue(2)),
                  Entry("b", IntValue(2), <<"word", 0>>, IntValue(2)) >>

DocNoField == << Entry("a", IntValue(2), IntValue(2), IntValue(2)),
                Entry("c", IntValue(2), IntValue(2), <<"absent", 0>>) >>

Documents == {DocOld, DocNew, DocNoInteger, DocNoField}

NoKeys == [k \in {} |-> 0]

\* APIKeyLimits(...) of an entry, or nothing when a field is absent or int()
\* raises
ParseEntry(e) ==
  IF \E i \in 1 .. 3 : IntOf(e.cfg[i]) = << >> THEN << >>
  ELSE << [rpm |-> IntOf(e.cfg[1])[1], input_tpm |-> IntOf(e.cfg[2])[1],
           output_tpm |-> IntOf(e.cfg[3])[1]] >>

\* parsed[key] = APIKeyLimits(...)
WithEntry(m, key, lim) == [k \in DOMAIN m \cup {key} |-> IF k = key THEN lim ELSE m[k]]

parse_entry_InPlace(reg, key, lim) ==
  [reg EXCEPT !.parsed = WithEntry(@, key, lim), !.keys = WithEntry(@, key, lim),
              !.todo = Tail(@)]

\* One turn of the loop of reload: the entry goes into the local parsed.
parse_entry(reg, key, lim) ==
  [reg EXCEPT !.parsed = WithEntry(@, key, lim), !.todo = Tail(@)]

RECURSIVE Loaded(_, _)
\* The mapping a document without fault describes.
Loaded(doc, m) ==
  IF doc = << >> THEN m
  ELSE Loaded(Tail(doc), WithEntry(m, Head(doc).key, ParseEntry(Head(doc))[1]))

\* APIKeyStore.__init__ has loaded the configuration the service starts with.
InitRegistry ==
  /\ registry = [keys |-> Loaded(DocOld, NoKeys), parsed |-> NoKeys, todo |-> << >>,
                 pc |-> "idle", doc |-> <<"none">>, before |-> Loaded(DocOld, NoKeys),
                 ended |-> "none", reloads |-> 0]
  /\ seen = [during |-> "none", keys |-> NoKeys]

\* A handler between requests: it holds no header, no body, no now_ms and
\* no reply.
IdleHandler ==
  [pc |-> "idle", header |-> << >>,
   body |-> [json |-> "invalid", messages |-> "none", list |-> << >>, max_tokens |-> "none", int |-> 0],
   now_ms |-> 0, reply |-> <<0, 0, 0, 0, 0>>]

\* The state of the parts that take no part in a specification.
InitApp ==
  /\ quiet = [now |-> 0, before |-> 0]
  /\ InitMetrics
  /\ http = [header |-> << >>, body |-> IdleHandler.body, status |-> 0, called |-> FALSE,
             served |-> 0, handlers |-> [h \in Handlers |-> IdleHandler]]
  /\ InitRegistry
  /\ life = [pc |-> "imported", task |-> "none", client |-> "open", ended |-> "none",
             events |-> << >>]
  /\ ledger = [by |-> [d \in Dims |-> EmptyHash], latest |-> 0, lagged |-> FALSE,
               ahead |-> FALSE, late |-> FALSE, admitted_at |-> -1, shadow |-> EmptyStore,
               ghost |-> NoOutcome]

\* ------------------------------------------------------- the engine alone
Init ==
  /\ clock = 0
  /\ store = EmptyStore
  /\ limits \in LimitChoices
  /\ last = NoCall
  /\ InitNodes
  /\ InitApp

\* Time passes at the store, up to most steps; keys whose time-to-live ran
\* out are reclaimed.
Elapse(most) ==
  /\ clock + TickMs <= most * TickMs
  /\ clock' = clock + TickMs
  /\ store' = Reclaim(store, clock')
  /\ last' = NoCall
  /\ UNCHANGED <<appVars, limits, nodeVars>>

Tick == Elapse(MaxTicks)

\* The time between a call reading its node's clock and the store
\* evaluating its evalsha: the call is suspended at its await meanwhile.
Delays == {k * TickMs : k \in 0 .. MaxDelayTicks}

\* One check_and_consume call, from the store evaluating its evalsha to its
\* return: the call has read the clock of its node, which lags the store's by
\* one of skews (is ahead of it by a negative one), one of delays ago, and
\* has one of requests as its token counts.
Consume(skews, delays, requests) ==
  \E skew \in skews, delay \in delays, t \in requests :
    LET now_ms        == clock - delay - skew
        input_tokens  == t[1]
        output_tokens == t[2]
    IN  \E r \in {ScriptCall(store, clock, now_ms, limits, input_tokens, output_tokens)} :
        /\ now_ms >= 0
        /\ \A d \in Dims : GET(r.store, d)[1] <= MaxUsage
        /\ store' = r.store
        /\ last' = [kind |-> "call", now_ms |-> now_ms,
                    input_tokens |-> input_tokens, output_tokens |-> output_tokens,
                    evicted |-> Cardinality({b \in store.z["rpm"] : b \notin r.store.z["rpm"]}),
                    outcome |-> RateLimitOutcome(r.reply)]
        /\ UNCHANGED <<clock, limits, nodeVars>>

\* The call is evaluated as soon as it has read its clock, with any of the
\* token counts, or later, with one of RequestShapes.
CheckAndConsume ==
  /\ \/ Consume({0, SkewMs}, {0}, Requests)
     \/ Consume({0, SkewMs}, Delays \ {0}, RequestShapes)
  /\ UNCHANGED appVars

Next == Tick \/ CheckAndConsume

Spec == Init /\ [][Next]_vars

\* ------------------------------------------- calls after a time without any
\* window_seconds + 5 seconds, the time-to-live of the key's state.
QuietCap == ttl_seconds(WindowSeconds) * 1000

\* Time passes at the store and nobody calls.
Idle ==
  /\ clock + TickMs <= MaxLongTicks * TickMs
  /\ clock' = clock + TickMs
  /\ store' = Reclaim(store, clock')
  /\ last' = NoCall
  /\ quiet' = [quiet EXCEPT !.now = IF @ + TickMs >= QuietCap + MaxDelayTicks * TickMs
                                     THEN QuietCap + MaxDelayTicks * TickMs
                                     ELSE @ + TickMs]
  /\ UNCHANGED <<limits, nodeVars, metricVars, http, registryVars, life, ledger>>

\* A check_and_consume call ends the time without calls: it read the clock
\* delay ago, after quiet.now - delay without any call being evaluated; the
\* clock it read is the store's, lags it, or (evaluated at once) is ahead.
CallAfterIdle ==
  \E delay \in Delays :
    /\ Consume(IF delay = 0 THEN {-LeadMs, 0, SkewMs} ELSE {0, SkewMs}, {delay}, RequestShapes)
    /\ quiet' = [now |-> 0, before |-> Max(0, quiet.now - delay)]
    /\ UNCHANGED <<metricVars, http, registryVars, life, ledger>>

InitQuiet ==
  /\ clock = 0
  /\ store = EmptyStore
  /\ limits \in NodeLimitChoices
  /\ last = NoCall
  /\ InitNodes
  /\ InitApp

NextQuiet == Idle \/ CallAfterIdle

SpecQuiet == InitQuiet /\ [][NextQuiet]_vars

\* --------------------------------------- calls whose now_ms never goes back
\* What the call c, when admitted, adds to the buckets of dimension d.  Kept
\* are the buckets that a call with the same or a later now_ms can share a
\* window of window_seconds buckets with.
Booked(by, d, c) ==
  LET bucket == bucketOf(c.now_ms)
      delta  == CASE ~c.outcome.allowed -> 0
                  [] d = "rpm" -> 1
                  [] d = "input" -> Max(0, c.input_tokens)
                  [] d = "output" -> Max(0, c.output_tokens)
      kept   == {b \in DOMAIN by[d] : b > bucket - WindowSeconds}
                  \cup (IF c.outcome.allowed THEN {bucket} ELSE {})
  IN  [b \in kept |->
         (IF b \in DOMAIN by[d] THEN by[d][b] ELSE 0) + (IF b = bucket THEN delta ELSE 0)]

\* The call c is evaluated at store time now more than the five seconds
\* that the time-to-live exceeds the window after the now_ms it passes.
Late(c, now) == now - c.now_ms > TtlSlack * 1000

\* The times between the clock being read and the evaluation: the short
\* ones, the longest that is not late, and one as long as the store's clock
\* goes.
LongDelays == Delays \cup {TtlSlack * 1000, MaxLongTicks * TickMs}

\* One check_and_consume call of a node whose clock lags the store's by skew
\* (is ahead of it by a negative skew), evaluated any time after it read the
\* clock (at once, when its clock is ahead); its now_ms is not before the
\* now_ms of the call evaluated before.
CallInOrder(skew) ==
  /\ Consume({skew}, IF skew < 0 THEN {0} ELSE LongDelays, RequestShapes)
  /\ last'.now_ms >= ledger.latest
  /\ ledger' = [ledger EXCEPT !.by = [d \in Dims |-> Booked(@, d, last')],
                              !.latest = last'.now_ms,
                              !.lagged = @ \/ skew > 0,
                              !.ahead = @ \/ last'.now_ms > clock,
                              !.late = @ \/ Late(last', clock)]
  /\ UNCHANGED <<quiet, metricVars, http, registryVars, life>>

TickLong == Elapse(MaxLongTicks)

NextWindow == TickLong \/ \E skew \in {-LeadMs, 0, SkewMs} : CallInOrder(skew)

SpecWindow == InitQuiet /\ [][NextWindow]_vars

\* ------------------------------- callers and store on one clock, and expiry
\* One check_and_consume call of a node on the store's clock, evaluated any
\* time after it read the clock; the same call is evaluated on the store that
\* no time-to-live has touched.
CallShared ==
  /\ Consume({0}, LongDelays, RequestShapes)
  /\ \E g \in {ScriptCall(ledger.shadow, clock, last'.now_ms, limits, last'.input_tokens, last'.output_tokens)} :
       ledger' = [ledger EXCEPT !.latest = last'.now_ms,
                               !.late = @ \/ Late(last', clock),
                               !.admitted_at = IF last'.outcome.allowed THEN clock ELSE @,
                               !.shadow = g.store,
                               !.ghost = RateLimitOutcome(g.reply)]
  /\ UNCHANGED <<quiet, metricVars, http, registryVars, life>>

NextExpiry == TickLong \/ CallShared

SpecExpiry == InitQuiet /\ [][NextExpiry]_vars

\* ------------------------------------------- several nodes, one shared store
\* Each node runs one check_and_consume at a time; a call is the round trips
\* of _eval_script, and the store takes them one at a time in any order.

RECURSIVE SumCalls(_)
SumCalls(S) ==
  IF S = {} THEN 0
  ELSE LET n == CHOOSE x \in S : TRUE
       IN  nodes[n].calls + (IF nodes[n].pc = "idle" THEN 0 ELSE 1) + SumCalls(S \ {n})

\* The calls made so far, those in flight included.
Started == SumCalls(Nodes)

\* main.startup: the script is registered before the node serves.
Startup(n) ==
  /\ nodes[n].pc = "idle" /\ ~nodes[n].sha /\ nodes[n].calls = 0
  /\ cached' = TRUE
  /\ nodes' = [nodes EXCEPT ![n].sha = TRUE]
  /\ UNCHANGED <<appVars, clock, store, limits, last, serial, expect, tally, faults>>

\* check_and_consume up to its first await: the clock is read, the arguments
\* are built, and _eval_script registers the script first if it has no sha.
Call(n) ==
  \E t \in RequestShapes :
    LET now_ms == clock - NodeSkew(n) IN
    /\ nodes[n].pc = "idle" /\ Started < MaxCalls
    /\ now_ms >= 0
    /\ nodes' = [nodes EXCEPT ![n] =
         [@ EXCEPT !.pc = IF nodes[n].sha THEN "evalsha" ELSE "initialize",
                   !.caught = "none", !.attempts = 0, !.applied = 0,
                   !.req = [now_ms |-> now_ms, input_tokens |-> t[1],
                            output_tokens |-> t[2]],
                   !.ret = NoReturn]]
    /\ expect' = [expect EXCEPT ![n] = NoReply]
    /\ UNCHANGED <<appVars, clock, store, limits, last, cached, serial, tally, faults>>

\* RateLimiter.initialize: SCRIPT LOAD puts the script in the store's cache.
Initialize(n) ==
  /\ nodes[n].pc = "initialize"
  /\ cached' = TRUE
  /\ nodes' = [nodes EXCEPT ![n].sha = TRUE, ![n].pc = "evalsha"]
  /\ UNCHANGED <<appVars, clock, store, limits, last, serial, expect, tally, faults>>

\* The store runs the script for node n's call, all of it at once.
Evaluated(n) ==
  LET q == nodes[n].req
      r == ScriptCall(store, clock, q.now_ms, limits, q.input_tokens, q.output_tokens)
      v == ScriptCall(serial, clock, q.now_ms, limits, q.input_tokens, q.output_tokens)
  IN  /\ store' = r.store
      /\ serial' = IF nodes[n].applied = 0 THEN v.store ELSE serial
      /\ expect' = IF nodes[n].applied = 0 THEN [expect EXCEPT ![n] = v.reply] ELSE expect

Count_FailedTwice(ret) ==
  [tally EXCEPT ![ IF ret.kind = "raised" THEN "raised"
                   ELSE IF ret.outcome.allowed THEN "admitted"
                   ELSE IF ret.outcome.limit_flag = 1 THEN "rpm"
                   ELSE "tokens" ] = IF ret.kind = "raised" THEN @ + 2 ELSE @ + 1]

\* The call of node n ends: it returns an outcome or raises.
Finish(nd, ret) ==
  [nd EXCEPT !.pc = "idle", !.ret = ret, !.calls = @ + 1, !.req = NoRequest]

Count(ret) ==
  [tally EXCEPT ![ IF ret.kind = "raised" THEN "raised"
                   ELSE IF ret.outcome.allowed THEN "admitted"
                   ELSE IF ret.outcome.limit_flag = 1 THEN "rpm"
                   ELSE "tokens" ] = @ + 1]

\* evalsha answered: the script ran and its reply becomes the outcome.
EvalSha(n) ==
  /\ nodes[n].pc = "evalsha" /\ cached
  /\ Evaluated(n)
  /\ LET q   == nodes[n].req
         r   == ScriptCall(store, clock, q.now_ms, limits, q.input_tokens, q.output_tokens)
         ret == [kind |-> "outcome", outcome |-> RateLimitOutcome(r.reply), error |-> "none"]
     IN  /\ nodes' = [nodes EXCEPT ![n] =
              Finish([@ EXCEPT !.attempts = @ + 1, !.applied = @ + 1], ret)]
         /\ tally' = Count(ret)
  /\ UNCHANGED <<appVars, clock, limits, last, cached, faults>>

\* A round trip of node n raises error, nd being the node's record by then:
\* _eval_script catches it and goes on to register the script again, or the
\* call raises it.
Raise(n, nd, error) ==
  LET ret == [kind |-> "raised", outcome |-> NoOutcome, error |-> error]
  IN  IF Caught(error, nodes[n].pc, nodes[n].caught # "none")
      THEN /\ nodes' = [nodes EXCEPT ![n] = [nd EXCEPT !.pc = "initialize", !.caught = error]]
           /\ tally' = tally
      ELSE /\ nodes' = [nodes EXCEPT ![n] = Finish(nd, ret)]
           /\ tally' = Count(ret)

\* evalsha answered "unknown script": the script did not run.
NoScript(n) ==
  /\ nodes[n].pc = "evalsha" /\ ~cached
  /\ Raise(n, [nodes[n] EXCEPT !.attempts = @ + 1], "NoScriptError")
  /\ UNCHANGED <<appVars, clock, store, limits, last, cached, serial, expect, faults>>

\* The round trip fails (connection lost, timeout) before the store acts.
RequestLost(n) ==
  /\ nodes[n].pc \in {"initialize", "evalsha"}
  /\ faults < MaxFaults
  /\ faults' = faults + 1
  /\ Raise(n, [nodes[n] EXCEPT !.attempts = IF nodes[n].pc = "evalsha" THEN @ + 1 ELSE @],
           "ConnectionError")
  /\ UNCHANGED <<appVars, clock, store, limits, last, cached, serial, expect>>

\* The round trip fails after the store ran the script: the reply is lost.
ReplyLost(n) ==
  /\ nodes[n].pc = "evalsha" /\ cached
  /\ faults < MaxFaults
  /\ faults' = faults + 1
  /\ Evaluated(n)
  /\ Raise(n, [nodes[n] EXCEPT !.attempts = @ + 1, !.applied = @ + 1], "TimeoutError")
  /\ UNCHANGED <<appVars, clock, limits, last, cached>>

\* The store loses its script cache (SCRIPT FLUSH, eviction); data stays.
ScriptFlush ==
  /\ cached /\ faults < MaxFaults
  /\ cached' = FALSE
  /\ faults' = faults + 1
  /\ UNCHANGED <<appVars, clock, store, limits, last, nodes, serial, expect, tally>>

\* Time passes at the store, for the serial run as well.
TickNodes ==
  /\ clock + TickMs <= MaxNodeTicks * TickMs
  /\ clock' = clock + TickMs
  /\ store' = Reclaim(store, clock')
  /\ serial' = Reclaim(serial, clock')
  /\ UNCHANGED <<appVars, limits, last, cached, nodes, expect, tally, faults>>

InitN ==
  /\ clock = 0
  /\ store = EmptyStore
  /\ limits \in NodeLimitChoices
  /\ last = NoCall
  /\ InitNodes
  /\ InitApp

NextNodes ==
  \/ TickNodes
  \/ ScriptFlush
  \/ \E n \in Nodes :
       \/ Startup(n)
       \/ Call(n)
       \/ Initialize(n)
       \/ EvalSha(n)
       \/ NoScript(n)
       \/ RequestLost(n)
       \/ ReplyLost(n)

SpecNodes == InitN /\ [][NextNodes]_vars

\* ------------------------------------------------- the HTTP front end
\* An Authorization header is a sequence of words and blanks; "key" is the
\* API key the registry holds, "nokey" one it does not hold.
Headers ==
  { << >>, <<"Bearer">>, <<"key">>, <<" ", "key">>, <<"Bearer", " ">>,
    <<"Basic", " ", "key">>, <<"Bearer", " ", "nokey">>,
    <<"Bearer", " ", "key", " ", "key">>,
    <<"Bearer", " ", "key">>, <<"BEARER", " ", " ", "key", " ">> }

\* A request body: the kind of JSON it is; its "messages" (absent, a string,
\* a list) and its "max_tokens" (absent, a string, an integer). An element
\* of messages is a string, or an object whose "content" is absent, a string
\* of chars characters or a list of pieces; a piece is a string of chars
\* characters, an object whose "text" is such a string, or a number.
\* The bodies sent, Hi being {"role": "user", "content": "hi"}:
\*   {                                     []
\*   {}                                    {"messages": "hi"}
\*   {"messages": []}                      {"messages": ["hi"], "max_tokens": 1}
\*   {"messages": [Hi], "max_tokens": 1}   {"messages": [Hi]}
\*   {"messages": [Hi], "max_tokens": 0}   {"messages": [Hi], "max_tokens": "5"}
\*   {"messages": [Hi], "max_tokens": 600}
\*   {"messages": [{"role": "user", "content": ["abcd", {"type": "text", "text": "efgh"}, 7]},
\*                 {"role": "user"}], "max_tokens": 2}
Bodies ==
  LET Piece(is, chars) == [is |-> is, chars |-> chars]
      Message(is, content, chars, pieces) ==
        [is |-> is, content |-> content, chars |-> chars, pieces |-> pieces]
      Body(json, messages, list, max_tokens, int) ==
        [json |-> json, messages |-> messages, list |-> list, max_tokens |-> max_tokens,
         int |-> int]
      Hi == Message("dict", "str", 2, << >>)
  IN  { Body("invalid", "none", << >>, "none", 0),
        Body("list", "none", << >>, "none", 0),
        Body("dict", "none", << >>, "none", 0),
        Body("dict", "str", << >>, "none", 0),
        Body("dict", "list", << >>, "none", 0),
        Body("dict", "list", <<Message("str", "none", 0, << >>)>>, "int", 1),
        Body("dict", "list", <<Hi>>, "int", 1),
        Body("dict", "list", <<Hi>>, "none", 0),
        Body("dict", "list", <<Hi>>, "int", 0),
        Body("dict", "list", <<Hi>>, "str", 0),
        Body("dict", "list", <<Hi>>, "int", 600),
        Body("dict", "list",
             << Message("dict", "list", 0,
                        <<Piece("str", 4), Piece("dict", 4), Piece("int", 0)>>),
                Message("dict", "none", 0, << >>) >>, "int", 2) }

\* str.lower() on the words
Lower(w) ==
  CASE w \in {"Bearer", "BEARER"} -> "bearer"
    [] w = "Basic" -> "basic"
    [] OTHER -> w

\* header.split(" ", 1): what is before the first blank, what is after it
FirstBlank(h) == CHOOSE i \in 1 .. Len(h) : h[i] = " " /\ \A j \in 1 .. i - 1 : h[j] # " "

RECURSIVE Strip(_)
\* token.strip()
Strip(t) ==
  IF t = << >> THEN t
  ELSE IF Head(t) = " " THEN Strip(Tail(t))
  ELSE IF t[Len(t)] = " " THEN Strip(SubSeq(t, 1, Len(t) - 1))
  ELSE t

\* key_store.get(api_key): the registry holds the one key
KeyStoreGet(api_key) == IF api_key = <<"key">> THEN <<limits>> ELSE << >>

auth_headers_NoSchemeCheck(header) ==
  IF header = << >> \/ \A i \in 1 .. Len(header) : header[i] # " " THEN 401
  ELSE LET api_key == Strip(SubSeq(header, FirstBlank(header) + 1, Len(header)))
       IN  IF KeyStoreGet(api_key) = << >> THEN 401 ELSE 0

\* _auth_headers: 401, or 0 when it returns the key and its limits
auth_headers(header) ==
  IF header = << >> \/ \A i \in 1 .. Len(header) : header[i] # " " THEN 401
  ELSE LET scheme  == SubSeq(header, 1, FirstBlank(header) - 1)
           token   == SubSeq(header, FirstBlank(header) + 1, Len(header))
           api_key == Strip(token)
       IN  IF Len(scheme) # 1 \/ Lower(scheme[1]) # "bearer" THEN 401
           ELSE IF KeyStoreGet(api_key) = << >> THEN 401
           ELSE 0

RECURSIVE piece_chars(_)
\* _estimate_tokens, the inner loop: len(piece) of a string, len(text) of an
\* object's text, nothing of anything else
piece_chars(pieces) ==
  IF pieces = << >> THEN 0
  ELSE (IF Head(pieces).is \in {"str", "dict"} THEN Head(pieces).chars ELSE 0)
       + piece_chars(Tail(pieces))

RECURSIVE total_chars(_)
\* _estimate_tokens, the outer loop over messages that are objects
total_chars(messages) ==
  IF messages = << >> THEN 0
  ELSE (CASE Head(messages).content = "str" -> Head(messages).chars
          [] Head(messages).content = "list" -> piece_chars(Head(messages).pieces)
          [] OTHER -> 0)
       + total_chars(Tail(messages))

\* _estimate_tokens(messages): max(1, total_chars // 4 or 1)
estimate_tokens(messages) ==
  Max(1, IF total_chars(messages) \div 4 = 0 THEN 1 ELSE total_chars(messages) \div 4)

\* completion_tokens: max(1, min(max_tokens, 512)), max_tokens being 128
\* unless the body gives a positive integer
completion_tokens(body) ==
  LET max_tokens == IF body.max_tokens # "int" \/ body.int <= 0 THEN DefaultMaxTokens
                    ELSE body.int
  IN  Max(1, IF max_tokens <= MaxCompletionTokens THEN max_tokens ELSE MaxCompletionTokens)

\* chat_completions from the body to the call of check_and_consume: 400,
\* 500 (payload.get on what is no object raises, and so does msg.get in
\* _estimate_tokens on a message that is no object) or 0
body_checks(body) ==
  CASE body.json = "invalid" -> 400
    [] body.json # "dict" -> 500
    [] body.messages # "list" \/ body.list = << >> -> 400
    [] \E i \in 1 .. Len(body.list) : body.list[i].is # "dict" -> 500
    [] OTHER -> 0

early_response_BodyFirst(header, body) ==
  IF body_checks(body) # 0 THEN body_checks(body) ELSE auth_headers(header)

\* chat_completions up to the call of check_and_consume: the status it
\* answers before that, or 0
early_response(header, body) ==
  IF auth_headers(header) # 0 THEN auth_headers(header) ELSE body_checks(body)

\* _record_metric(kind), done at once
Recorded(kind) == [metrics EXCEPT ![kind] = @ + 1]

\* The requests sent, as <<header, body>>: every header with a body that is
\* no JSON, no header and an unknown key with a body that passes the checks,
\* and every body with the registry's key as a Bearer token.
HttpRequests ==
  (Headers \X {body \in Bodies : body.json = "invalid"})
    \cup ({<< >>, <<"Bearer", " ", "nokey">>}
             \X {body \in Bodies : body_checks(body) = 0 /\ body.max_tokens = "int" /\ body.int = 1})
    \cup ({<<"Bearer", " ", "key">>} \X Bodies)

\* The handler of h returns or raises: the response is sent.
Responds(h, header, body, status, called) ==
  http' = [header |-> header, body |-> body, status |-> status, called |-> called,
           served |-> http.served + 1,
           handlers |-> [http.handlers EXCEPT ![h] = IdleHandler]]

\* A request arrives: _auth_headers answers 401, or the handler awaits the
\* body.
ChatCompletions(h) ==
  /\ http.handlers[h].pc = "idle"
  /\ h = CHOOSE free \in Handlers : http.handlers[free].pc = "idle"
  /\ http.served + Cardinality({busy \in Handlers : http.handlers[busy].pc # "idle"}) < MaxRequests
  /\ \E request \in HttpRequests :
       IF early_response(request[1], request[2]) = 401
       THEN Responds(h, request[1], request[2], 401, FALSE)
       ELSE http' = [http EXCEPT !.handlers[h] =
                       [IdleHandler EXCEPT !.pc = "body", !.header = request[1],
                                           !.body = request[2]]]
  /\ UNCHANGED <<clock, store, limits, last, nodeVars, quiet, metricVars, registryVars, life, ledger>>

\* The body has arrived: the handler answers 400, raises, or calls
\* check_and_consume, which reads the clock and sends the evalsha.
RequestBody(h) ==
  /\ http.handlers[h].pc = "body"
  /\ LET mine  == http.handlers[h]
         early == early_response(mine.header, mine.body)
     IN  IF early # 0
         THEN Responds(h, mine.header, mine.body, early, FALSE)
         ELSE http' = [http EXCEPT !.handlers[h].pc = "calling", !.handlers[h].now_ms = clock]
  /\ UNCHANGED <<clock, store, limits, last, nodeVars, quiet, metricVars, registryVars, life, ledger>>

\* The store evaluates the evalsha of h; its reply is on the way.
StoreEvaluates(h) ==
  /\ http.handlers[h].pc = "calling"
  /\ \E r \in {ScriptCall(store, clock, http.handlers[h].now_ms, limits,
                          estimate_tokens(http.handlers[h].body.list),
                          completion_tokens(http.handlers[h].body))} :
       /\ store' = r.store
       /\ http' = [http EXCEPT !.handlers[h].pc = "evaluated", !.handlers[h].reply = r.reply]
  /\ UNCHANGED <<clock, limits, last, nodeVars, quiet, metricVars, registryVars, life, ledger>>

\* check_and_consume raises, the evalsha or its reply being lost: the
\* handler records the failure and raises.
CallRaises(h) ==
  /\ http.handlers[h].pc \in {"calling", "evaluated"}
  /\ metrics' = Recorded("failed")
  /\ Responds(h, http.handlers[h].header, http.handlers[h].body, 500, TRUE)
  /\ UNCHANGED <<clock, store, limits, last, nodeVars, quiet, metrics_lock, recorders, reporter,
                 audit, registryVars, life, ledger>>

\* check_and_consume returns the outcome: the handler records it and
\* answers 429 or 200.
CallReturns(h) ==
  /\ http.handlers[h].pc = "evaluated"
  /\ LET result == RateLimitOutcome(http.handlers[h].reply)
     IN  /\ metrics' = Recorded(IF result.allowed THEN "success" ELSE "throttled")
         /\ Responds(h, http.handlers[h].header, http.handlers[h].body,
                     IF result.allowed THEN 200 ELSE 429, TRUE)
  /\ UNCHANGED <<clock, store, limits, last, nodeVars, quiet, metrics_lock, recorders, reporter,
                 audit, registryVars, life, ledger>>

\* A node that serves requests; the registry's entry for the key has limits
\* of one token, or token limits that admit the largest completion.
InitHttp ==
  /\ clock = 0
  /\ store = EmptyStore
  /\ limits \in { APIKeyLimits(2, 1, 1), APIKeyLimits(2, Roomy, MaxCompletionTokens) }
  /\ last = NoCall
  /\ InitNodes
  /\ InitApp

NextHttp ==
  \/ TickNodes
  \/ \E h \in Handlers :
       \/ ChatCompletions(h)
       \/ RequestBody(h)
       \/ StoreEvaluates(h)
       \/ CallRaises(h)
       \/ CallReturns(h)

SpecHttp == InitHttp /\ [][NextHttp]_vars

\* ------------------------------------------------- reloads of the registry
\* reload, statement by statement, while other threads look keys up.

\* reload is called: the file does not exist and reload raises, or the
\* document is read and parsed starts empty.
ReloadStarts ==
  \E doc \in Documents \cup {<<"missing">>} :
    /\ registry.pc = "idle" /\ registry.reloads < MaxReloads
    /\ registry' = IF doc = <<"missing">>
                   THEN [registry EXCEPT !.doc = doc, !.before = registry.keys,
                                         !.ended = "raised", !.reloads = @ + 1]
                   ELSE [registry EXCEPT !.doc = doc, !.before = registry.keys,
                                         !.parsed = NoKeys, !.todo = doc, !.pc = "parse",
                                         !.ended = "none", !.reloads = @ + 1]
    /\ UNCHANGED seen

\* The loop of reload takes the next entry: it goes into parsed, or a field
\* is absent or no integer and reload raises.
ReloadParses ==
  /\ registry.pc = "parse" /\ registry.todo # << >>
  /\ LET e == Head(registry.todo) IN
     registry' = IF ParseEntry(e) = << >>
                 THEN [registry EXCEPT !.pc = "idle", !.ended = "raised",
                                       !.parsed = NoKeys, !.todo = << >>]
                 ELSE parse_entry(registry, e.key, ParseEntry(e)[1])
  /\ UNCHANGED seen

\* self._keys = parsed
ReloadCommits ==
  /\ registry.pc = "parse" /\ registry.todo = << >>
  /\ registry' = [registry EXCEPT !.keys = registry.parsed, !.parsed = NoKeys,
                                  !.pc = "idle", !.ended = "done"]
  /\ UNCHANGED seen

\* get(api_key) / all_keys() of another thread read self._keys.
Lookup ==
  /\ seen' = [during |-> registry.pc, keys |-> registry.keys]
  /\ UNCHANGED registry

NextRegistry ==
  /\ ReloadStarts \/ ReloadParses \/ ReloadCommits \/ Lookup
  /\ UNCHANGED <<clock, store, limits, last, nodeVars, quiet, metricVars, http, life, ledger>>

SpecRegistry == InitN /\ [][NextRegistry]_vars

\* ------------------------------------------- the metrics and their reporter
\* _record_metric and the reporter's snapshot-and-reset, statement by
\* statement, as threads may interleave them; "with _metrics_lock" lets one
\* in at a time.
Enter_NoLock(holder) == TRUE

\* with _metrics_lock: the lock is taken when nobody holds it.
Enter(holder) == holder = "free"

RECURSIVE SumKinds(_, _)
SumKinds(f, S) ==
  IF S = {} THEN 0
  ELSE LET k == CHOOSE x \in S : TRUE IN f[k] + SumKinds(f, S \ {k})

RecordsStarted ==
  SumKinds(audit.made, Kinds) + Cardinality({h \in Handlers : recorders[h].pc # "idle"})

\* _record_metric(kind) is called and takes the lock.
RecordEnter(h) ==
  \E kind \in Kinds :
    /\ recorders[h].pc = "idle" /\ RecordsStarted < MaxRecords
    /\ Enter(metrics_lock)
    /\ metrics_lock' = h
    /\ recorders' = [recorders EXCEPT ![h] = [pc |-> "read", kind |-> kind, read |-> 0]]
    /\ UNCHANGED <<metrics, reporter, audit>>

\* _metrics[kind] += 1, the read
RecordRead(h) ==
  /\ recorders[h].pc = "read"
  /\ recorders' = [recorders EXCEPT ![h].pc = "write", ![h].read = metrics[recorders[h].kind]]
  /\ UNCHANGED <<metrics, metrics_lock, reporter, audit>>

\* _metrics[kind] += 1, the write
RecordWrite(h) ==
  /\ recorders[h].pc = "write"
  /\ metrics' = [metrics EXCEPT ![recorders[h].kind] = recorders[h].read + 1]
  /\ recorders' = [recorders EXCEPT ![h].pc = "exit"]
  /\ UNCHANGED <<metrics_lock, reporter, audit>>

\* the with block of _record_metric ends: the lock is released
RecordExit(h) ==
  /\ recorders[h].pc = "exit"
  /\ metrics_lock' = IF metrics_lock = h THEN "free" ELSE metrics_lock
  /\ recorders' = [recorders EXCEPT ![h].pc = "idle"]
  /\ audit' = [audit EXCEPT !.made[recorders[h].kind] = @ + 1]
  /\ UNCHANGED <<metrics, reporter>>

\* await asyncio.sleep(1) is over and the reporter takes the lock.
ReporterWakes ==
  /\ reporter.pc = "sleep" /\ audit.wakes < MaxWakes
  /\ Enter(metrics_lock)
  /\ metrics_lock' = "reporter"
  /\ reporter' = [pc |-> "success", snap |-> Zeros]
  /\ audit' = [audit EXCEPT !.wakes = @ + 1]
  /\ UNCHANGED <<metrics, recorders>>

\* success = _metrics["success"], then throttled, then failed
ReporterReads ==
  /\ reporter.pc \in Kinds
  /\ reporter' = [pc   |-> CASE reporter.pc = "success"   -> "throttled"
                            [] reporter.pc = "throttled" -> "failed"
                            [] reporter.pc = "failed"    -> "reset",
                   snap |-> [reporter.snap EXCEPT ![reporter.pc] = metrics[reporter.pc]]]
  /\ UNCHANGED <<metrics, metrics_lock, recorders, audit>>

\* _metrics["success"] = _metrics["throttled"] = _metrics["failed"] = 0, and
\* the with block ends.
ReporterResets ==
  /\ reporter.pc = "reset"
  /\ metrics' = Zeros
  /\ metrics_lock' = IF metrics_lock = "reporter" THEN "free" ELSE metrics_lock
  /\ reporter' = [reporter EXCEPT !.pc = "report"]
  /\ audit' = [audit EXCEPT !.taken = [k \in Kinds |-> @[k] + reporter.snap[k]],
                            !.positive = IF SumKinds(reporter.snap, Kinds) > 0 THEN @ + 1 ELSE @]
  /\ UNCHANGED recorders

Logs_Always(total) == TRUE

\* if total: logger.info(...)
Logs(total) == total # 0

\* total = success + throttled + failed; one log line if total
ReporterReports ==
  /\ reporter.pc = "report"
  /\ LET total == reporter.snap["success"] + reporter.snap["throttled"] + reporter.snap["failed"]
     IN  audit' = IF Logs(total)
                  THEN [audit EXCEPT !.lines = @ + 1,
                                     !.logged = [k \in Kinds |-> @[k] + reporter.snap[k]]]
                  ELSE audit
  /\ reporter' = [reporter EXCEPT !.pc = "sleep"]
  /\ UNCHANGED <<metrics, metrics_lock, recorders>>

NextMetrics ==
  /\ \/ ReporterWakes
     \/ ReporterReads
     \/ ReporterResets
     \/ ReporterReports
     \/ \E h \in Handlers :
          \/ RecordEnter(h)
          \/ RecordRead(h)
          \/ RecordWrite(h)
          \/ RecordExit(h)
  /\ UNCHANGED <<clock, store, limits, last, nodeVars, quiet, http, registryVars, life, ledger>>

SpecMetrics == InitN /\ [][NextMetrics]_vars

\* ------------------------------------------------ startup and shutdown
\* startup: the script is registered, then the reporter task is created; when
\* the registration raises, startup raises and no task exists.
StartupRuns ==
  \E registered \in BOOLEAN :
    /\ life.pc = "imported"
    /\ life' = IF registered
               THEN [life EXCEPT !.pc = "serving", !.task = "running",
                                 !.events = Append(@, "create_task")]
               ELSE [life EXCEPT !.pc = "startup failed"]
    /\ UNCHANGED <<metricVars>>

\* logger.info raises in the reporter: the task ends with that exception.
ReporterCrashes ==
  /\ life.pc = "serving" /\ life.task = "running"
  /\ reporter.pc = "report"
  /\ Logs(SumKinds(reporter.snap, Kinds))
  /\ life' = [life EXCEPT !.task = "crashed"]
  /\ UNCHANGED <<metricVars>>

\* shutdown is called: if _metrics_task: _metrics_task.cancel().  The
\* reporter, when it runs, is at its await.
ShutdownCancels ==
  /\ life.pc \in {"imported", "startup failed", "serving"}
  /\ life.task = "running" => reporter.pc = "sleep"
  /\ life' = IF life.task = "none"
             THEN [life EXCEPT !.pc = "close"]
             ELSE [life EXCEPT !.pc = "await task",
                               !.task = IF @ = "running" THEN "cancelled" ELSE @,
                               !.events = Append(@, "cancel")]
  /\ UNCHANGED <<metricVars>>

Suppressed_Everything(task) == TRUE

\* with suppress(asyncio.CancelledError): await _metrics_task -- what the
\* await raises is suppressed when the task was cancelled.
Suppressed(task) == task = "cancelled"

ShutdownAwaits ==
  /\ life.pc = "await task"
  /\ life' = IF Suppressed(life.task)
             THEN [life EXCEPT !.pc = "close"]
             ELSE [life EXCEPT !.pc = "stopped", !.ended = "raised"]
  /\ UNCHANGED <<metricVars>>

\* await rate_limiter.close()
ShutdownCloses ==
  /\ life.pc = "close"
  /\ life' = [life EXCEPT !.pc = "stopped", !.ended = "returned", !.client = "closed",
                          !.events = Append(@, "close")]
  /\ UNCHANGED <<metricVars>>

NextLife ==
  \/ /\ life.pc = "serving" /\ life.task = "running"
     /\ NextMetrics
  \/ /\ StartupRuns \/ ReporterCrashes \/ ShutdownCancels \/ ShutdownAwaits \/ ShutdownCloses
     /\ UNCHANGED <<clock, store, limits, last, nodeVars, quiet, http, registryVars, ledger>>

SpecLife == InitN /\ [][NextLife]_vars

\* ---------------------------- the script cache lost between calls, no error
\* The store loses its script cache while no call is in flight, and every
\* round trip is answered.
FlushBetweenCalls ==
  /\ \A n \in Nodes : nodes[n].pc = "idle"
  /\ ScriptFlush

NextFlush ==
  \/ TickNodes
  \/ FlushBetweenCalls
  \/ \E n \in Nodes :
       \/ Startup(n)
       \/ Call(n)
       \/ Initialize(n)
       \/ EvalSha(n)
       \/ NoScript(n)

SpecFlush == InitN /\ [][NextFlush]_vars

\* ------------------------------------------------- notions the claims use
\* The spec's data model read off the store: RunningTotal, BucketTotals and
\* BucketIndex of a dimension; an absent RunningTotal counts as 0.
RunningTotal(st, d) == IF st.total[d] = << >> THEN 0 ELSE st.total[d][1]

BucketTotals(st, d) == st.h[d]

BucketIndex(st, d) == st.z[d]

\* The first bucket of the window of a call evaluated at now_ms.
WindowStart(now_ms) == (now_ms \div 1000) - WindowSeconds + 1

\* The RunningTotal a call at now_ms sees once the buckets before its window
\* are evicted.
AfterPrune(st, d, now_ms) ==
  RunningTotal(st, d)
    - SumOver(st.h[d], {b \in DOMAIN st.h[d] : b < WindowStart(now_ms)})

\* What a call asks of a dimension, and the limit of the dimension.
Delta(d, c) ==
  CASE d = "rpm"    -> 1
    [] d = "input"  -> IF c.input_tokens > 0 THEN c.input_tokens ELSE 0
    [] d = "output" -> IF c.output_tokens > 0 THEN c.output_tokens ELSE 0

Limit(d) ==
  CASE d = "rpm"    -> limits.rpm
    [] d = "input"  -> limits.input_tpm
    [] d = "output" -> limits.output_tpm

DimOfFlag(k) == CASE k = 1 -> "rpm" [] k = 2 -> "input" [] k = 3 -> "output"

Usage(o, d) ==
  CASE d = "rpm"    -> o.rpm_usage
    [] d = "input"  -> o.input_tokens_usage
    [] d = "output" -> o.output_tokens_usage

\* The dimension has a positive limit that the call c would exceed, judged
\* on the store st the call finds.
Exceeds(st, d, c) ==
  Limit(d) > 0 /\ AfterPrune(st, d, c.now_ms) + Delta(d, c) > Limit(d)

\* The step is a check_and_consume call that returns now.
Returns == last'.kind = "call"

\* ------------------------------------------------------------------ C1
\* C1: a call is admitted (allowed, limit_flag 0) iff every dimension with a
\* positive limit has RunningTotal after pruning + delta <= limit; a
\* dimension with limit 0 never is the limit_flag.
C1_AdmissionCondition ==
  [][ Returns =>
        /\ last'.outcome.allowed <=> \A d \in Dims : ~Exceeds(store, d, last')
        /\ last'.outcome.allowed <=> last'.outcome.limit_flag = 0
        /\ last'.outcome.limit_flag \in 0..3
        /\ last'.outcome.limit_flag # 0 =>
             Limit(DimOfFlag(last'.outcome.limit_flag)) > 0 ]_vars

\* A call is rejected although a dimension without limit is far over what
\* any positive limit of the registry would allow.
C1_Witness ==
  /\ last.kind = "call"
  /\ ~last.outcome.allowed
  /\ \E d \in Dims : Limit(d) = 0 /\ RunningTotal(store, d) + Delta(d, last) > 2

\* ------------------------------------------------------------------ C2
\* C2 as stated: a rejected call leaves the nine keys as they were.
C2_RejectedLeavesStore ==
  [][ (Returns /\ ~last'.outcome.allowed) => store' = store ]_vars

\* What a rejected call at now_ms makes of the store st: the buckets before
\* the window leave BucketIndex and BucketTotals, their amounts leave the
\* RunningTotal, an absent RunningTotal is created as 0 without
\* time-to-live, and a key emptied by this is deleted.
PrunedOnly(st, now_ms) ==
  [ z     |-> [d \in Dims |-> {b \in st.z[d] : b >= WindowStart(now_ms)}],
    h     |-> [d \in Dims |->
                 [b \in {x \in DOMAIN st.h[d] : x >= WindowStart(now_ms)} |-> st.h[d][b]]],
    total |-> [d \in Dims |-> <<AfterPrune(st, d, now_ms)>>],
    exp   |-> [d \in Dims |-> [p \in Parts |->
                 CASE p = "z" ->
                        IF \E b \in st.z[d] : b >= WindowStart(now_ms)
                        THEN st.exp[d][p] ELSE NoTTL
                   [] p = "h" ->
                        IF \E b \in DOMAIN st.h[d] : b >= WindowStart(now_ms)
                        THEN st.exp[d][p] ELSE NoTTL
                   [] p = "total" -> st.exp[d][p] ]] ]

\* C2 (amended): a rejected call changes the key's state by the pruning
\* alone: nothing inside the window changes, no RunningTotal is incremented
\* and no time-to-live is set.
C2_RejectedOnlyPrunes ==
  [][ (Returns /\ ~last'.outcome.allowed) =>
        store' = PrunedOnly(store, last'.now_ms) ]_vars

\* A rejected call has evicted a bucket and finds usage left in the window.
C2_Witness ==
  /\ last.kind = "call"
  /\ ~last.outcome.allowed
  /\ last.evicted > 0
  /\ RunningTotal(store, "rpm") > 0

\* ------------------------------------------------------------------ C3
\* C3: an admitted call adds, on top of the pruned state, exactly 1 / input
\* tokens / output tokens to RunningTotal and to BucketTotals[bucket] of the
\* three dimensions, and its bucket is in every BucketIndex; the other
\* buckets of the window are as they were.
C3_AdmittedUpdatesAll ==
  [][ (Returns /\ last'.outcome.allowed) =>
        LET c      == last'
            bucket == c.now_ms \div 1000
            before == PrunedOnly(store, c.now_ms)
        IN  \A d \in Dims :
              /\ RunningTotal(store', d) = RunningTotal(before, d) + Delta(d, c)
              /\ bucket \in BucketIndex(store', d)
              /\ bucket \in DOMAIN BucketTotals(store', d)
              /\ BucketTotals(store', d)[bucket] =
                   (IF bucket \in DOMAIN before.h[d] THEN before.h[d][bucket] ELSE 0)
                     + Delta(d, c)
              /\ BucketIndex(store', d) = BucketIndex(before, d) \cup {bucket}
              /\ DOMAIN BucketTotals(store', d) = DOMAIN before.h[d] \cup {bucket}
              /\ \A b \in DOMAIN before.h[d] \ {bucket} :
                   BucketTotals(store', d)[b] = before.h[d][b] ]_vars

\* An admitted call with tokens in both dimensions has evicted a bucket and
\* joins an older bucket that is still in the window.
C3_Witness ==
  /\ last.kind = "call"
  /\ last.outcome.allowed
  /\ last.input_tokens > 0 /\ last.output_tokens > 0
  /\ last.evicted > 0
  /\ Cardinality(BucketIndex(store, "rpm")) >= 2

\* ------------------------------------------------------------------ C4
\* C4: the limit_flag is the first dimension, in the order rpm, input,
\* output, whose positive limit the call would exceed (0 if there is none),
\* and allowed = (limit_flag = 0).
C4_FirstExceededDimension ==
  [][ Returns =>
        LET exceeded == {k \in 1..3 : Exceeds(store, DimOfFlag(k), last')}
            flag     == last'.outcome.limit_flag
        IN  /\ exceeded = {} => flag = 0
            /\ exceeded # {} => flag \in exceeded /\ \A k \in exceeded : flag <= k
            /\ last'.outcome.allowed = (flag = 0) ]_vars

\* A call is rejected while all three dimensions would be exceeded (a
\* rejected call leaves the window as it found it); rpm is reported.
C4_Witness ==
  /\ last.kind = "call"
  /\ last.outcome.limit_flag = 1
  /\ \A d \in Dims : Limit(d) > 0 /\ RunningTotal(store, d) + Delta(d, last) > Limit(d)

\* ------------------------------------------------------------------ C5
\* C5: in every state, whatever calls and expiries led to it, the
\* RunningTotal of each dimension is the sum of its BucketTotals.
C5_TotalIsSumOfBuckets ==
  \A d \in Dims :
    RunningTotal(store, d) = SumOver(BucketTotals(store, d), DOMAIN BucketTotals(store, d))

\* A rejected call has evicted a bucket and leaves input tokens in the
\* window.
C5_Witness ==
  /\ last.kind = "call"
  /\ ~last.outcome.allowed
  /\ last.evicted > 0
  /\ RunningTotal(store, "input") >= 1

\* ------------------------------------------------------------------ C6
\* C6: after a call evaluated for the time t = now_ms that it passes,
\* admitted or not, no bucket before floor(t/1000) - window_seconds + 1 is left in any BucketIndex or
\* BucketTotals.
C6_NoExpiredResidue ==
  last.kind = "call" =>
    \A d \in Dims :
      \A b \in BucketIndex(store, d) \cup DOMAIN BucketTotals(store, d) :
        b >= (last.now_ms \div 1000) - WindowSeconds + 1

\* A call has evicted buckets and the dimension still holds a bucket.
C6_Witness ==
  /\ last.kind = "call"
  /\ last.evicted > 0
  /\ BucketIndex(store, "output") # {}

\* ------------------------------------------------------------------ C9
\* C9: the usages a call returns are the RunningTotals at its end: those
\* after pruning plus the deltas when admitted, those after pruning when
\* rejected.
C9_UsagesAreRunningTotals ==
  [][ Returns =>
        \A d \in Dims :
          /\ Usage(last'.outcome, d) = RunningTotal(store', d)
          /\ Usage(last'.outcome, d) =
               AfterPrune(store, d, last'.now_ms)
                 + (IF last'.outcome.allowed THEN Delta(d, last') ELSE 0) ]_vars

\* The request rejected after rpm-limit many admitted requests reports them
\* and their tokens.
C9_Witness ==
  /\ last.kind = "call"
  /\ last.outcome.limit_flag = 1
  /\ last.outcome.rpm_usage = limits.rpm
  /\ last.outcome.input_tokens_usage > 0
  /\ last.outcome.output_tokens_usage > 0

\* ------------------------------------------------------------------ C7
AllReturned == \A n \in Nodes : nodes[n].pc = "idle"

Returned == tally["admitted"] + tally["rpm"] + tally["tokens"]

Least(a, b) == IF a <= b THEN a ELSE b

\* C7: N calls of several nodes on the key within one window, rpm limit
\* L > 0, token limits out of reach, no call raising: whatever the
\* interleaving, min(N, L) are admitted, the others are rejected with
\* limit_flag 1, and RunningTotal_rpm ends as min(N, L).
C7_ConcurrentBurst ==
  ( /\ AllReturned
    /\ tally["raised"] = 0
    /\ limits.rpm > 0
    /\ limits.input_tpm >= Roomy /\ limits.output_tpm >= Roomy
    /\ clock \div 1000 < WindowSeconds )
  => /\ tally["admitted"] = Least(Returned, limits.rpm)
     /\ tally["rpm"] = Returned - Least(Returned, limits.rpm)
     /\ tally["tokens"] = 0
     /\ RunningTotal(store, "rpm") = Least(Returned, limits.rpm)

\* Both nodes have made calls, together more than the rpm limit admits, one
\* of them after the store had lost the script.
C7_Witness ==
  /\ AllReturned
  /\ \A n \in Nodes : nodes[n].calls >= 1
  /\ \E n \in Nodes : nodes[n].attempts = 2
  /\ tally["raised"] = 0
  /\ limits.input_tpm >= Roomy /\ limits.output_tpm >= Roomy
  /\ Returned > limits.rpm
  /\ tally["rpm"] = Returned - limits.rpm

\* ------------------------------------------------------------------ C8
\* C8: the store's state is the one that running the accepted calls once
\* each, one at a time in the order the store took them, produces, and every
\* outcome a node got is the one that serial run gives to its call.
C8_Serializable ==
  /\ store = serial
  /\ \A n \in Nodes :
       nodes[n].ret.kind = "outcome" =>
         nodes[n].ret.outcome = RateLimitOutcome(expect[n])

\* Calls of both nodes have met at the store: one was admitted, one was
\* throttled, and one lost its reply after the store had run it.
C8_Witness ==
  /\ AllReturned
  /\ \E n, m \in Nodes :
       /\ n # m
       /\ nodes[n].ret.kind = "outcome" /\ ~nodes[n].ret.outcome.allowed
       /\ nodes[m].ret.error = "TimeoutError" /\ nodes[m].applied = 1
  /\ tally["admitted"] >= 1

\* ----------------------------------------------------------------- C10
\* C10: a call sends evalsha at most twice, the second time only after it
\* caught "unknown script" on the first and registered the script again; an
\* "unknown script" it raises is the second one, any other error ends the
\* call at once; and the store runs the script at most once for the call.
C10_RetryOnce ==
  \A n \in Nodes :
    LET nd == nodes[n] IN
    /\ nd.attempts <= 2
    /\ nd.applied <= 1
    /\ nd.caught \in {"none", "NoScriptError"}
    /\ nd.attempts = 2 => nd.caught = "NoScriptError"
    /\ (nd.caught # "none" /\ nd.pc = "evalsha") => (nd.attempts = 1 /\ nd.sha)
    /\ nd.ret.error = "NoScriptError" => nd.attempts = 2
    /\ (nd.ret.error \in {"ConnectionError", "TimeoutError"} /\ nd.caught = "none")
         => nd.attempts <= 1

\* A call was answered "unknown script", registered the script, tried again
\* and was admitted.
C10_Witness ==
  \E n \in Nodes :
    /\ nodes[n].pc = "idle"
    /\ nodes[n].attempts = 2
    /\ nodes[n].applied = 1
    /\ nodes[n].ret.kind = "outcome" /\ nodes[n].ret.outcome.allowed

\* ----------------------------------------------------------------- C11
\* C11: when the store loses its script cache between two calls, the later
\* call returns, and it returns the outcome and leaves the store state that
\* the same calls give on a store that never lost the script: the window
\* state is kept and the call is counted once.
C11_FlushIsInvisible ==
  /\ store = serial
  /\ tally["raised"] = 0
  /\ \A n \in Nodes :
       /\ nodes[n].applied <= 1
       /\ (nodes[n].pc = "idle" /\ nodes[n].calls > 0) =>
            /\ nodes[n].ret.kind = "outcome"
            /\ nodes[n].applied = 1
            /\ nodes[n].ret.outcome = RateLimitOutcome(expect[n])

\* A first call was admitted, the store lost the script, and the second call
\* took the registration path and was admitted as the second of the window.
C11_Witness ==
  /\ faults >= 1
  /\ \E n \in Nodes :
       /\ nodes[n].pc = "idle"
       /\ nodes[n].attempts = 2 /\ nodes[n].caught = "NoScriptError"
       /\ nodes[n].ret.kind = "outcome" /\ nodes[n].ret.outcome.allowed
       /\ nodes[n].ret.outcome.rpm_usage = 2

\* ----------------------------------------------------------------- C12
\* The step ends the call of node n by raising a transport error.
FailsNow(n) ==
  /\ nodes[n].pc # "idle" /\ nodes'[n].pc = "idle"
  /\ nodes'[n].ret.kind = "raised"
  /\ nodes'[n].ret.error \in {"ConnectionError", "TimeoutError"}

\* The store admitted the request of the call that node n has just ended.
AdmissionApplied(n) == nodes'[n].applied > 0 /\ expect'[n][1] = 1

\* C12 as stated: a request whose store round trip fails is counted as
\* failed once, as nothing else, and no admission is applied to the store.
C12_FailedAppliesNothing ==
  [][ \A n \in Nodes :
        FailsNow(n) =>
          /\ tally' = [tally EXCEPT !["raised"] = @ + 1]
          /\ ~AdmissionApplied(n) ]_vars

\* C12, the part that holds: the failed request is counted as failed once
\* and as nothing else, the store ran the script for it at most once, and it
\* applied nothing when the round trip failed before the store acted.
C12_FailedCountedOnce ==
  [][ \A n \in Nodes :
        FailsNow(n) =>
          /\ tally' = [tally EXCEPT !["raised"] = @ + 1]
          /\ nodes'[n].applied <= 1
          /\ nodes'[n].ret.error = "ConnectionError" =>
                (nodes'[n].applied = 0 /\ store' = store) ]_vars

\* A request failed on a lost connection after another one was admitted,
\* and the failed one left the store alone.
C12_Witness ==
  /\ tally["raised"] = 1 /\ tally["admitted"] = 1
  /\ \E n \in Nodes :
       /\ nodes[n].pc = "idle"
       /\ nodes[n].ret.error = "ConnectionError"
       /\ nodes[n].applied = 0
  /\ RunningTotal(store, "rpm") = 1

\* ----------------------------------------------------------------- C13
\* C13: a call that is made (reads its clock) after window_seconds + 5
\* seconds without any call for the key is decided against the totals
\* (0, 0, 0), whenever it is evaluated, and when admitted with (input,
\* output) it reports the usages (1, input, output).
C13_QuietMeansZeroUsage ==
  [][ (Returns /\ quiet'.before >= QuietCap) =>
        /\ \A d \in Dims : AfterPrune(store, d, last'.now_ms) = 0
        /\ last'.outcome.allowed <=>
             \A d \in Dims : Limit(d) > 0 => Delta(d, last') <= Limit(d)
        /\ \A d \in Dims :
             Usage(last'.outcome, d) =
               IF last'.outcome.allowed THEN Delta(d, last') ELSE 0 ]_vars

\* A request with tokens came after the quiet time, found and evicted the
\* bucket of an earlier request, and reports itself alone.
C13_Witness ==
  /\ last.kind = "call"
  /\ quiet.before >= QuietCap
  /\ last.evicted > 0
  /\ last.outcome.allowed
  /\ last.outcome.rpm_usage = 1
  /\ last.outcome.input_tokens_usage = 1 /\ last.outcome.output_tokens_usage = 1

\* ----------------------------------------------------------------- C14
\* The keys of the nine that exist in st all carry the same time-to-live.
SameTTL(st) ==
  Cardinality({st.exp[k[1]][k[2]] : k \in {x \in Dims \X Parts : KeyExists(st, x[1], x[2])}}) <= 1

\* C14 as stated: after every call the keys that exist carry the same
\* time-to-live, and the call has set it to window_seconds + 5.
C14_EveryCallRefreshes ==
  [][ Returns =>
        /\ SameTTL(store')
        /\ \A d \in Dims, p \in Parts :
             KeyExists(store', d, p) => store'.exp[d][p] = clock + QuietCap ]_vars

\* C14 (amended): after every call the keys that exist carry the same
\* time-to-live; an admitted call leaves all nine keys in existence and sets
\* their time-to-live to window_seconds + 5; a rejected call sets none: a key
\* that it leaves in existence keeps the time-to-live it had, and a
\* RunningTotal that it creates has none.
C14_AdmittedCallRefreshes ==
  [][ Returns =>
        /\ SameTTL(store')
        /\ last'.outcome.allowed =>
             \A d \in Dims, p \in Parts :
               KeyExists(store', d, p) /\ store'.exp[d][p] = clock + QuietCap
        /\ ~last'.outcome.allowed =>
             \A d \in Dims, p \in Parts :
               KeyExists(store', d, p) =>
                 store'.exp[d][p] = IF KeyExists(store, d, p) THEN store.exp[d][p] ELSE NoTTL ]_vars

\* A rejected call has left keys whose time-to-live an earlier admission
\* set and that has partly run down.
C14_Witness ==
  /\ last.kind = "call"
  /\ ~last.outcome.allowed
  /\ \E d \in Dims, p \in Parts :
       /\ KeyExists(store, d, p)
       /\ store.exp[d][p] # NoTTL
       /\ store.exp[d][p] < clock + QuietCap

\* ----------------------------------------------------------------- C15
\* C15: in every reachable state the bucket ids of BucketIndex are the
\* bucket ids that have an entry in BucketTotals, in each dimension.
C15_IndexMatchesTotals ==
  \A d \in Dims : BucketIndex(store, d) = DOMAIN BucketTotals(store, d)

\* An admitted call has evicted a bucket and left two buckets in the window.
C15_Witness ==
  /\ last.kind = "call"
  /\ last.outcome.allowed
  /\ last.evicted > 0
  /\ \A d \in Dims : Cardinality(DOMAIN BucketTotals(store, d)) = 2

\* ----------------------------------------------------------------- C16
\* The step is an admitted call that follows, in the same one-second
\* bucket, an admitted call that was the first of that bucket.
SecondInBucket ==
  /\ last.kind = "call" /\ last.outcome.allowed
  /\ Returns /\ last'.outcome.allowed
  /\ bucketOf(last.now_ms) = bucketOf(last'.now_ms)
  /\ BucketTotals(store, "rpm")[bucketOf(last.now_ms)] = 1

\* C16: two admitted calls in the same one-second bucket leave, in each
\* dimension, BucketTotals[bucket] equal to the sum of their deltas, and a
\* BucketIndex after the second call of the size it had after the first,
\* with the bucket in it.
C16_SameBucketAccumulates ==
  [][ SecondInBucket =>
        LET bucket == bucketOf(last'.now_ms) IN
        \A d \in Dims :
          /\ BucketTotals(store', d)[bucket] = Delta(d, last) + Delta(d, last')
          /\ Cardinality(BucketIndex(store', d)) = Cardinality(BucketIndex(store, d))
          /\ bucket \in BucketIndex(store', d) ]_vars

\* The second of two admitted calls with a token each has joined the bucket
\* of the first.
C16_Witness ==
  /\ last.kind = "call" /\ last.outcome.allowed
  /\ last.input_tokens = 1
  /\ BucketTotals(store, "rpm")[bucketOf(last.now_ms)] = 2
  /\ BucketTotals(store, "input")[bucketOf(last.now_ms)] = 2
  /\ Cardinality(BucketIndex(store, "input")) = 1

\* ----------------------------------------------------------------- C17
\* Nobody is inside _record_metric and the reporter sleeps.
MetricsAtRest ==
  /\ reporter.pc = "sleep"
  /\ \A h \in Handlers : recorders[h].pc = "idle"

\* C17: whatever the interleaving of _record_metric calls and reporter
\* wake-ups, no increment is lost or taken twice: for each counter, what the
\* reporter took so far plus the counter's value is the number of increments
\* made; what it logged is what it took; and a wake-up writes a log line
\* exactly when the sum of its snapshot is positive.
C17_NoIncrementLost ==
  /\ MetricsAtRest =>
       \A k \in Kinds :
         /\ audit.taken[k] + metrics[k] = audit.made[k]
         /\ audit.logged[k] = audit.taken[k]
  /\ reporter.pc = "sleep" => audit.lines = audit.positive

\* Handlers have counted successes and failures; the reporter woke twice,
\* took counts and wrote a line once and found nothing the other time, and
\* counts made since wait in the counters.
C17_Witness ==
  /\ MetricsAtRest
  /\ audit.wakes = 2 /\ audit.lines = 1
  /\ audit.made["failed"] >= 1 /\ audit.made["success"] >= 1
  /\ SumKinds(audit.made, Kinds) = MaxRecords
  /\ SumKinds(audit.taken, Kinds) >= 2
  /\ SumKinds(metrics, Kinds) >= 1

\* ----------------------------------------------------------------- C18
\* The headers that name the registry's key as a Bearer token.
Authorized == { <<"Bearer", " ", "key">>, <<"BEARER", " ", " ", "key", " ">> }

\* C18: a request whose Authorization header is missing, malformed, no
\* Bearer token or names an unknown key is answered 401, whatever its body,
\* and no other request is; a request answered 401 or 400 has not called
\* check_and_consume, and the step that answers it changes neither the store
\* nor a metrics counter; every authorized request with an invalid body or
\* without messages is answered 400; and the store and the counters change
\* only on behalf of a request that has called check_and_consume, which has
\* an authorized header and a body that passes the checks.
C18_RejectedBeforeStore ==
  [][ /\ http'.served = http.served + 1 =>
           /\ http'.header \notin Authorized <=> http'.status = 401
           /\ http'.status \in {400, 401} =>
                (~http'.called /\ store' = store /\ metrics' = metrics)
           /\ (http'.header \in Authorized
                 /\ (http'.body.json = "invalid"
                       \/ (http'.body.json = "dict"
                             /\ (http'.body.messages # "list" \/ http'.body.list = << >>))))
                => http'.status = 400
      /\ (clock' = clock /\ (store' # store \/ metrics' # metrics))
           => \E h \in Handlers : http.handlers[h].pc \in {"calling", "evaluated"}
      /\ \A h \in Handlers :
           http'.handlers[h].pc \in {"calling", "evaluated"} =>
             /\ http'.handlers[h].header \in Authorized
             /\ body_checks(http'.handlers[h].body) = 0 ]_vars

\* While an admitted request waits for the store's reply (the store holds
\* it, no counter has moved), a request with an unknown key and a body that
\* is no JSON was answered 401 and left the store and the counters alone.
C18_Witness ==
  /\ http.status = 401
  /\ http.header = <<"Bearer", " ", "nokey">>
  /\ http.body.json = "invalid"
  /\ ~http.called
  /\ \E h \in Handlers : http.handlers[h].pc = "evaluated" /\ http.handlers[h].reply[1] = 1
  /\ metrics = Zeros
  /\ RunningTotal(store, "rpm") = 1

\* ----------------------------------------------------------------- C19
\* C19: a lookup concurrent with reload reads the complete old mapping or
\* the complete new one, never a partly built one; a reload that raises
\* (file missing, field missing, value no integer) leaves the mapping it
\* found; a reload that ends well leaves the mapping of its document.
C19_ReloadIsAtomic ==
  /\ registry.pc = "parse" => registry.keys = registry.before
  /\ registry.ended = "raised" => registry.keys = registry.before
  /\ registry.ended = "done" => registry.keys = Loaded(registry.doc, NoKeys)
  /\ seen.keys \in {NoKeys} \cup {Loaded(doc, NoKeys) : doc \in {DocOld, DocNew}}
  /\ seen.keys = NoKeys => seen.during = "none"

\* After a reload replaced the mapping, a second one has parsed its first
\* entry and a lookup still read the mapping of the first; then the second
\* raised on its next entry.
C19_Witness ==
  /\ registry.reloads = 2
  /\ registry.ended = "raised" /\ registry.doc = DocNoInteger
  /\ registry.keys = Loaded(DocNew, NoKeys)
  /\ seen.during = "parse" /\ seen.keys = Loaded(DocNew, NoKeys)

\* ----------------------------------------------------------------- C20
\* C20 as stated: when shutdown has ended, on whatever path, the store
\* client is closed, and a reporter that was started was cancelled before.
C20_ClosedOnEveryPath ==
  life.pc = "stopped" =>
    /\ life.client = "closed"
    /\ life.task # "none" =>
         \E i, j \in 1 .. Len(life.events) :
           i < j /\ life.events[i] = "cancel" /\ life.events[j] = "close"

\* C20, the part that holds: a shutdown that returns has closed the store
\* client, after cancelling the reporter if one was started; shutdown
\* returns when no reporter was started and when the reporter was running;
\* it raises, the client left open, exactly when the reporter task had ended
\* with an exception of its own.
C20_ClosedWhenReturned ==
  life.pc = "stopped" =>
    /\ life.ended = "returned" =>
         /\ life.client = "closed"
         /\ life.task # "none" =>
              \E i, j \in 1 .. Len(life.events) :
                i < j /\ life.events[i] = "cancel" /\ life.events[j] = "close"
    /\ life.task \in {"none", "cancelled"} => life.ended = "returned"
    /\ life.ended = "raised" <=> life.task = "crashed"
    /\ life.ended = "raised" => life.client = "open"

\* The service ran, counted and logged; shutdown cancelled the reporter and
\* then closed the client.
C20_Witness ==
  /\ life.pc = "stopped" /\ life.ended = "returned"
  /\ life.events = <<"create_task", "cancel", "close">>
  /\ life.task = "cancelled" /\ life.client = "closed"
  /\ audit.lines >= 1

\* ----------------------------------------------------------------- C21
\* The call asks for no tokens: both counts are 0 or negative.
AsksNoTokens(c) == c.input_tokens <= 0 /\ c.output_tokens <= 0

\* C21: under fixed limits a call with input_tokens and output_tokens 0 (or
\* negative, clamped to 0) is never rejected with limit_flag 2 or 3; when
\* admitted it adds exactly 1 to the rpm RunningTotal and to the rpm bucket
\* and 0 to the RunningTotal and the bucket of both token dimensions.
C21_NoTokensNeverTokenLimited ==
  [][ (Returns /\ AsksNoTokens(last')) =>
        LET c      == last'
            bucket == c.now_ms \div 1000
            before == PrunedOnly(store, c.now_ms)
            held(d) == IF bucket \in DOMAIN before.h[d] THEN before.h[d][bucket] ELSE 0
        IN  /\ c.outcome.limit_flag \in {0, 1}
            /\ c.outcome.allowed =>
                 /\ RunningTotal(store', "rpm") = RunningTotal(before, "rpm") + 1
                 /\ BucketTotals(store', "rpm")[bucket] = held("rpm") + 1
                 /\ \A d \in {"input", "output"} :
                      /\ RunningTotal(store', d) = RunningTotal(before, d)
                      /\ BucketTotals(store', d)[bucket] = held(d)
                      /\ Usage(c.outcome, d) = RunningTotal(before, d) ]_vars

\* A call with negative token counts is admitted while a token dimension
\* with a positive limit is used up to its limit.
C21_Witness ==
  /\ last.kind = "call"
  /\ last.input_tokens < 0 /\ last.output_tokens < 0
  /\ last.outcome.allowed
  /\ \E d \in {"input", "output"} : Limit(d) > 0 /\ RunningTotal(store, d) = Limit(d)

\* ----------------------------------------------------------------- C22
\* The sum of what was admitted for dimension d in the window_seconds
\* consecutive buckets from b on.
AdmittedFrom(d, b) ==
  SumOver(ledger.by[d], {x \in DOMAIN ledger.by[d] : b <= x /\ x <= b + WindowSeconds - 1})

\* Every dimension with a positive limit has its RunningTotal, and what was
\* admitted in any window_seconds consecutive buckets, within the limit.
WithinLimits ==
  \A d \in Dims :
    Limit(d) > 0 =>
      /\ RunningTotal(store, d) <= Limit(d)
      /\ \A b \in 0 .. bucketOf(ledger.latest) : AdmittedFrom(d, b) <= Limit(d)

\* C22 as stated: the now_ms of successive calls never going back and the
\* limits fixed, for every dimension with a positive limit and every
\* window_seconds consecutive buckets the deltas of the admitted requests of
\* those buckets sum to at most the limit, and RunningTotal is at most the
\* limit.
C22_WindowNeverOverLimit == WithinLimits

\* C22, amended: the same, as long as every call was evaluated not before
\* the now_ms it passed and no more than five seconds (what the time-to-live
\* exceeds the window by) after it; a call evaluated later, or one evaluated
\* on time after calls of a node whose clock is ahead, may find the key's
\* state expired and be admitted into a window that is full.
C22_WindowWithinLimitUnlessLate == (~ledger.late /\ ~ledger.ahead) => WithinLimits

\* Requests were admitted in every bucket of a window that has slid, some by a node
\* whose clock lags and some evaluated seconds after the clock was read, none
\* too late; a window is filled to the rpm limit, and the call that came
\* last was rejected by rpm.
C22_Witness ==
  /\ Limit("rpm") > 0
  /\ Cardinality(DOMAIN ledger.by["rpm"]) = WindowSeconds
  /\ bucketOf(ledger.latest) > WindowSeconds
  /\ \E b \in 0 .. bucketOf(ledger.latest) : AdmittedFrom("rpm", b) = Limit("rpm")
  /\ last.kind = "call" /\ last.outcome.limit_flag = 1
  /\ clock - last.now_ms >= 2 * TickMs
  /\ ledger.lagged /\ ~ledger.late /\ ~ledger.ahead

\* ----------------------------------------------------------------- C23
\* The step is the store reclaiming keys whose time-to-live ran out.
KeysExpire == last'.kind = "none" /\ store' # store

\* Keys expire only more than window_seconds + 5 seconds after the last
\* admitted request, and every bucket they hold is then before the window of
\* a call that reads the clock at that time or later.
ExpiryTakesOldBuckets ==
  KeysExpire =>
    /\ ledger.admitted_at >= 0
    /\ clock' > ledger.admitted_at + (WindowSeconds + TtlSlack) * 1000
    /\ \A d \in Dims :
         /\ \A b \in BucketIndex(store, d) \cup DOMAIN BucketTotals(store, d) :
              b < WindowStart(clock')
         /\ AfterPrune(store, d, clock') = AfterPrune(store', d, clock')

\* C23 as stated: callers and store on one clock, expiry takes only buckets
\* that are before the window, and every call gets the reply it would get
\* from a store on which no time-to-live ever ran out.
C23_ExpiryNeverLowersUsage ==
  [][ /\ ExpiryTakesOldBuckets
      /\ Returns => last'.outcome = ledger'.ghost ]_vars

\* C23, amended: expiry takes only buckets that are before the window, and
\* as long as every call so far, this one included, was evaluated no more
\* than five seconds after it read the clock, every call gets the reply it
\* would get from a store on which no time-to-live ever ran out; a call
\* evaluated later has a window that reaches back before the expiry and
\* finds less usage than without it, and so may the calls after it.
C23_ExpiryTakesNothingInWindow ==
  [][ /\ ExpiryTakesOldBuckets
      /\ (Returns /\ ~ledger'.late) => last'.outcome = ledger'.ghost ]_vars

\* The moment the keys expire: the last request admitted was followed by a
\* rejected one, which did not put the expiry off; calls were evaluated
\* seconds after they read the clock, none too late; the key's state is gone,
\* the store that no time-to-live has touched still holds it.
C23_Witness ==
  /\ last.kind = "none"
  /\ ledger.admitted_at >= 0 /\ ledger.latest > ledger.admitted_at
  /\ ~ledger.late
  /\ clock > ledger.admitted_at + (WindowSeconds + TtlSlack) * 1000
  /\ \A d \in Dims, p \in Parts : ~KeyExists(store, d, p)
  /\ \E d \in Dims : BucketIndex(ledger.shadow, d) # {}

====
